---- MODULE Spec2Model ----
(***************************************************************************)
(* Model of torchio.data.queue.Queue (src/torchio/data/queue.py): the      *)
(* bounded patches buffer, its per-subject quota counters, the subject     *)
(* cursor, the restartable subjects iterable and the epoch reset.          *)
(*                                                                         *)
(* Python lists are sequences; Python index i is position i + 1.  A        *)
(* subject is its index in the subjects dataset given to the constructor;  *)
(* a patch is <<subject, k>>, the k-th item of one sampler(subject) call.  *)
(***************************************************************************)
EXTENDS Integers, Sequences, FiniteSets, TLC

\* ------------------------------------------------------------------ bounds
NumSubjects == 2
MaxQuota == 2
MaxLength == 3
MaxPops == 5
MaxQueried == 1

\* ----------------------------------------------------------------- helpers
None == -1

RECURSIVE Sum(_)
Sum(list) == IF list = <<>> THEN 0 ELSE Head(list) + Sum(Tail(list))

\* list[i] of Python: negative indices count from the end.
InRange(list, i) == i >= -Len(list) /\ i < Len(list)
At(list, i) == IF i >= 0 THEN list[i + 1] ELSE list[Len(list) + i + 1]
Pos(list, i) == IF i >= 0 THEN i + 1 ELSE Len(list) + i + 1

\* list[::-1]
Reversed(list) == [k \in 1..Len(list) |-> list[Len(list) + 1 - k]]

\* Faulty variant of Orders: indices drawn with replacement.
OrdersWithReplacement(n) == [1..n -> 0..(n - 1)]

\* The orders in which n items can be arranged, as index vectors over 0..n-1.
Orders(n) == {p \in [1..n -> 0..(n - 1)] : \A a, b \in 1..n : p[a] = p[b] => a = b}

\* An event of a call: what happened (ev), to which subject (s), how many
\* patches (n), and the object's fields right after it.
Ev(name, q, s, n) ==
    [ev |-> name, s |-> s, n |-> n, idx |-> q.idx, cur |-> q.cur, csv |-> q.csv,
     spv |-> q.spv, pl |-> q.pl]

NoIterable == [is_none |-> TRUE, items |-> <<>>]

\* The last call was not get_max_memory.
NoMemory == [called |-> FALSE, subject |-> None, patch_size |-> <<>>, bytes |-> 0]

\* ------------------------------------------------------------------- state
VARIABLES
    ctor,                       \* outcome of Queue.__init__: "none" before the call
    subjects_dataset,           \* the subjects, in source order
    max_length,
    shuffle_subjects,
    shuffle_patches,
    samples_per_volume,
    subjects_iterable,          \* self._subjects_iterable: None, or the subjects still to yield
    patches_list,
    num_sampled_patches,
    counter_samples_per_volume,
    idx_subject,
    curr_subject,
    \* what the caller passed and saw (not fields of the object)
    memory,                     \* the last call, when it was get_max_memory: arguments and result
    start_background,           \* the constructor argument
    samples_arg,                \* the samples_per_volume argument of the constructor
    quota,                      \* the caller's quota of each subject, in source order
    error,                      \* exception raised by the last call, "" when it returned
    sample_patch,               \* value returned by the last __getitem__
    \* history of the run
    epoch,                      \* epochs started so far, construction being the first
    drawn,                      \* patches drawn from each subject in the current epoch
    fetched,                    \* subjects obtained from the feeder in the current epoch
    appended,                   \* patches appended by the last _fill, in append order
    log                         \* events of the last call, in program order

vars == <<ctor, subjects_dataset, max_length, shuffle_subjects, shuffle_patches,
          samples_per_volume, subjects_iterable, patches_list, num_sampled_patches,
          counter_samples_per_volume, idx_subject, curr_subject, start_background,
          samples_arg, quota, error, sample_patch, epoch, drawn, fetched, appended, log,
          memory>>

\* The object and the history as one record, for the operators below.
Self ==
    [ds |-> subjects_dataset, max_length |-> max_length,
     shuffle_subjects |-> shuffle_subjects, shuffle_patches |-> shuffle_patches,
     spv |-> samples_per_volume, it |-> subjects_iterable, pl |-> patches_list,
     nsp |-> num_sampled_patches, csv |-> counter_samples_per_volume,
     idx |-> idx_subject, cur |-> curr_subject, err |-> "",
     ret |-> sample_patch, epoch |-> epoch, drawn |-> drawn, fetched |-> fetched,
     appended |-> appended, log |-> <<>>]

Store(q) ==
    /\ subjects_dataset' = q.ds
    /\ max_length' = q.max_length
    /\ shuffle_subjects' = q.shuffle_subjects
    /\ shuffle_patches' = q.shuffle_patches
    /\ samples_per_volume' = q.spv
    /\ subjects_iterable' = q.it
    /\ patches_list' = q.pl
    /\ num_sampled_patches' = q.nsp
    /\ counter_samples_per_volume' = q.csv
    /\ idx_subject' = q.idx
    /\ curr_subject' = q.cur
    /\ error' = q.err
    /\ sample_patch' = q.ret
    /\ epoch' = q.epoch
    /\ drawn' = q.drawn
    /\ fetched' = q.fetched
    /\ appended' = q.appended
    /\ log' = q.log

Raise(q, kind) == [q EXCEPT !.err = kind]
Note(q, name, s, n) == [q EXCEPT !.log = Append(@, Ev(name, q, s, n))]

\* ------------------------------------------------------------- properties
\* Queue.num_subjects
num_subjects(q) == Len(q.ds)

\* Queue.iterations_per_epoch
iterations_per_epoch(q) == Sum(q.spv)

\* -------------------------------------------------------- subjects feeder
\* Queue._get_subjects_iterable: with shuffle_subjects one random order of the
\* dataset indices is drawn, the local dataset and samples_per_volume are both
\* rearranged by it, and samples_per_volume is overwritten with the result.
\* The loader yields the local dataset item by item (batch_size 1, first item).
\* RandomSampler over an empty dataset is code outside this file: it either
\* raises ValueError (no samples to draw) or yields nothing; both outcomes are
\* kept.
ShuffledIterables(q) ==
    IF num_subjects(q) = 0
      THEN {Raise(q, "ValueError"),
            [q EXCEPT !.it = [is_none |-> FALSE, items |-> <<>>], !.spv = <<>>]}
    ELSE
    { IF \A j \in 1..num_subjects(q) : InRange(q.spv, random_idx[j])
        THEN [q EXCEPT
                !.it = [is_none |-> FALSE,
                        items |-> [j \in 1..num_subjects(q) |-> At(q.ds, random_idx[j])]],
                !.spv = [j \in 1..num_subjects(q) |-> At(q.spv, random_idx[j])]]
        ELSE Raise(q, "IndexError")
      : random_idx \in Orders(num_subjects(q)) }

GetSubjectsIterable(q) ==
    IF q.shuffle_subjects
      THEN ShuffledIterables(q)
      ELSE {[q EXCEPT !.it = [is_none |-> FALSE, items |-> q.ds]]}

\* Queue._initialize_subjects_iterable
InitializeSubjectsIterable(q) ==
    {IF r.err = "" THEN Note(r, "build", None, 0) ELSE r
       : r \in GetSubjectsIterable(q)}

\* Faulty variant of SubjectsIterable: built at every use.
SubjectsIterableAlways(q) == InitializeSubjectsIterable(q)

\* Queue.subjects_iterable (property): built on first use.
SubjectsIterable(q) ==
    IF q.it.is_none THEN InitializeSubjectsIterable(q) ELSE {q}

\* next(self.subjects_iterable): the subject, or StopIteration.
NextOf(q) ==
    IF q.it.items = <<>>
      THEN [q |-> Note(q, "eos", None, 0), stop |-> TRUE, subject |-> None]
      ELSE [q |-> [q EXCEPT !.it.items = Tail(@)], stop |-> FALSE,
            subject |-> Head(q.it.items)]

\* Faulty variant of GetNextSubject: the first StopIteration is not caught.
GetNextSubjectNoRetry(q) ==
    UNION { IF r.err # "" THEN {[q |-> r, subject |-> None]}
            ELSE IF NextOf(r).stop
              THEN {[q |-> Raise(NextOf(r).q, "StopIteration"), subject |-> None]}
            ELSE {[q |-> NextOf(r).q, subject |-> NextOf(r).subject]}
          : r \in SubjectsIterable(q) }

\* Queue._get_next_subject: on StopIteration the iterable is built again and
\* next() is called once more; its StopIteration is not caught.
\* Each result is [q, subject]; q.err is set when an exception leaves the call.
RetryNextSubject(q) ==
    UNION { IF r.err # "" THEN {[q |-> r, subject |-> None]}
            ELSE { IF NextOf(s).stop
                     THEN [q |-> Raise(NextOf(s).q, "StopIteration"), subject |-> None]
                     ELSE [q |-> NextOf(s).q, subject |-> NextOf(s).subject]
                   : s \in SubjectsIterable(r) }
          : r \in InitializeSubjectsIterable(q) }

GetNextSubject(q) ==
    UNION { IF r.err # "" THEN {[q |-> r, subject |-> None]}
            ELSE IF NextOf(r).stop THEN RetryNextSubject(NextOf(r).q)
            ELSE {[q |-> NextOf(r).q, subject |-> NextOf(r).subject]}
          : r \in SubjectsIterable(q) }

\* ----------------------------------------------------------------- sampler
\* Faulty variant of Patches: one patch more than asked for is taken.
PatchesOneMore(subject, spv) == [k \in 1..(spv + 1) |-> <<subject, k - 1>>]

\* list(islice(self.sampler(subject), spv)): the first spv patches of a fresh
\* patch sequence of the subject.
Patches(subject, spv) == [k \in 1..spv |-> <<subject, k - 1>>]

\* ------------------------------------------------------------------- _fill
\* Faulty variant of AdvanceSubject: fetches on every iteration, cached or not.
AdvanceSubjectAlways(q) ==
    { IF g.q.err # "" THEN g.q
      ELSE Note([g.q EXCEPT !.cur = g.subject, !.idx = @ + 1,
                           !.fetched = Append(@, g.subject)],
                "fetch", g.subject, 0)
      : g \in GetNextSubject(q) }

\* Lines 254-258: a subject is fetched, and the cursor moved, when none is
\* cached or the cached one has no quota left.
AdvanceSubject(q) ==
    IF q.cur # None /\ ~InRange(q.csv, q.idx) THEN {Raise(q, "IndexError")}
    ELSE IF q.cur = None \/ At(q.csv, q.idx) = 0
      THEN { IF g.q.err # "" THEN g.q
             ELSE Note([g.q EXCEPT !.cur = g.subject, !.idx = @ + 1,
                                  !.fetched = Append(@, g.subject)],
                       "fetch", g.subject, 0)
             : g \in GetNextSubject(q) }
      ELSE {q}

\* Faulty variant of Portion: never takes a portion.
PortionWhole(q) == At(q.csv, q.idx)

\* Faulty variant of Portion: always fills the headroom.
PortionHeadroom(q) == q.max_length - Len(q.pl)

\* Lines 262-268: a portion of the subject's patches, or all of them.
Portion(q) ==
    IF Len(q.pl) + At(q.csv, q.idx) > q.max_length
      THEN q.max_length - Len(q.pl)
      ELSE At(q.csv, q.idx)

\* Faulty variant of Draw: the drawn patches are not taken off the counter.
DrawKeepQuota(q) ==
    IF ~InRange(q.csv, q.idx) THEN Raise(q, "IndexError")
    ELSE LET spv == Portion(q)
             patches == Patches(q.cur, spv)
         IN Note([q EXCEPT !.pl = @ \o patches,
                           !.drawn[q.cur + 1] = @ + spv,
                           !.appended = @ \o patches],
                 "draw", q.cur, spv)

\* Lines 270-273.
Draw(q) ==
    IF ~InRange(q.csv, q.idx) THEN Raise(q, "IndexError")
    ELSE LET spv == Portion(q)
             patches == Patches(q.cur, spv)
         IN Note([q EXCEPT !.csv[Pos(q.csv, q.idx)] = @ - spv,
                           !.pl = @ \o patches,
                           !.drawn[q.cur + 1] = @ + spv,
                           !.appended = @ \o patches],
                 "draw", q.cur, spv)

LoopBody(q) ==
    {IF a.err # "" THEN a ELSE Draw(a) : a \in AdvanceSubject(q)}

\* Faulty variant of LoopCondition: stops one patch below capacity.
LoopConditionBelowCapacity(q) ==
    /\ Len(q.pl) < q.max_length - 1
    /\ Sum(q.csv) # 0
    /\ q.idx < num_subjects(q)

\* Lines 250-252: the three stopping conditions.
LoopCondition(q) ==
    /\ Len(q.pl) < q.max_length
    /\ Sum(q.csv) # 0
    /\ q.idx < num_subjects(q)

RECURSIVE FillLoop(_)
FillLoop(q) ==
    IF q.err = "" /\ LoopCondition(q)
      THEN UNION {FillLoop(r) : r \in LoopBody(q)}
      ELSE {q}

\* Faulty variants of ResetFields: one assignment of the reset is missing.
ResetFieldsKeepSubject(q) == [q EXCEPT !.csv = q.spv, !.idx = -1]
ResetFieldsKeepCursor(q) == [q EXCEPT !.csv = q.spv, !.cur = None]

\* Lines 238-242: end of the epoch.
ResetFields(q) ==
    [q EXCEPT !.csv = q.spv, !.idx = -1, !.cur = None]

\* Faulty variant of EpochReset: the feeder is not built again.
EpochResetNoBuild(q) ==
    IF Sum(q.csv) = 0
      THEN {Note([ResetFields(q) EXCEPT
                    !.epoch = @ + 1,
                    !.drawn = [s \in DOMAIN @ |-> 0],
                    !.fetched = <<>>],
                 "reset", None, 0)}
      ELSE {q}

EpochReset(q) ==
    IF Sum(q.csv) = 0
      THEN { IF r.err # "" THEN r
             ELSE Note([ResetFields(r) EXCEPT
                          !.epoch = @ + 1,
                          !.drawn = [s \in DOMAIN @ |-> 0],
                          !.fetched = <<>>],
                       "reset", None, 0)
             : r \in InitializeSubjectsIterable(q) }
      ELSE {q}

\* Faulty variant of ShufflePatches: the unshuffled list is not reversed.
ShufflePatchesNoReverse(q) ==
    IF q.shuffle_patches
      THEN {[q EXCEPT !.pl = [k \in 1..Len(q.pl) |-> At(q.pl, order[k])]]
              : order \in Orders(Len(q.pl))}
      ELSE {q}

\* Lines 275-280.
ShufflePatches(q) ==
    IF q.shuffle_patches
      THEN {[q EXCEPT !.pl = [k \in 1..Len(q.pl) |-> At(q.pl, order[k])]]
              : order \in Orders(Len(q.pl))}
      ELSE {[q EXCEPT !.pl = Reversed(q.pl)]}

\* _fill has returned.
Filled(q) == Note(q, "filled", None, Len(q.pl))

\* Lines 228-234: the modulo raises ZeroDivisionError when the quotas sum to 0.
DivisibilityCheck(q) ==
    IF iterations_per_epoch(q) = 0 THEN Raise(q, "ZeroDivisionError")
    ELSE IF q.max_length % iterations_per_epoch(q) # 0
      THEN Note(q, "warn", None, 0)
      ELSE q

\* _fill has been entered.
FillEntry(q) == Note([q EXCEPT !.appended = <<>>], "fill", None, 0)

\* Lines 236-280: _fill after the divisibility check.
FillBody(c) ==
    UNION { UNION { IF f.err # "" THEN {f}
                    ELSE {Filled(p) : p \in ShufflePatches(f)}
                    : f \in FillLoop(r) }
            : r \in EpochReset(c) }

Fill(q) ==
    LET c == DivisibilityCheck(FillEntry(q))
    IN IF c.err # "" THEN {c} ELSE FillBody(c)

\* ------------------------------------------------------------- __getitem__
\* Faulty variant of PopPatch: the patch is read but left in the buffer.
PopPatchKeep(q) ==
    IF q.pl = <<>> THEN Raise(q, "IndexError")
    ELSE [q EXCEPT !.ret = q.pl[Len(q.pl)], !.nsp = @ + 1]

\* Lines 186-187: patches_list.pop() and the count.
PopPatch(q) ==
    IF q.pl = <<>> THEN Raise(q, "IndexError")
    ELSE [q EXCEPT !.ret = q.pl[Len(q.pl)],
                   !.pl = SubSeq(q.pl, 1, Len(q.pl) - 1),
                   !.nsp = @ + 1]

GetItem(q) ==
    {IF f.err # "" THEN f ELSE PopPatch(f)
       : f \in (IF q.pl = <<>> THEN Fill(q) ELSE {q})}

\* ---------------------------------------------------------- get_max_memory
\* A subject's images: an intensity image with one channel more than the
\* subject's index, and a one-channel label map.
Images(subject) ==
    <<[channels |-> subject + 1, intensity |-> TRUE],
      [channels |-> 1, intensity |-> FALSE]>>

\* Faulty variant of GetImages: label maps are left out.
GetImagesIntensityOnly(subject, intensity_only) ==
    SelectSeq(Images(subject), LAMBDA image : image.intensity)

\* subject.get_images(intensity_only=...)
GetImages(subject, intensity_only) ==
    SelectSeq(Images(subject), LAMBDA image : ~intensity_only \/ image.intensity)

\* Lines 326-330: images_channels += len(image.data), image by image.
RECURSIVE ImagesChannels(_)
ImagesChannels(images) ==
    IF images = <<>> THEN 0
    ELSE Head(images).channels + ImagesChannels(Tail(images))

\* self.sampler.patch_size.prod()
RECURSIVE Prod(_)
Prod(patch_size) ==
    IF patch_size = <<>> THEN 1 ELSE Head(patch_size) * Prod(Tail(patch_size))

\* Queue.get_max_memory: [q, bytes]; q.err is set when the call raises.
MaxMemory(q, subject, patch_size) ==
    IF subject = None /\ ~InRange(q.ds, 0)
      THEN [q |-> Raise(q, "IndexError"), bytes |-> 0]
    ELSE LET sample == IF subject = None THEN At(q.ds, 0) ELSE subject
             images_channels == ImagesChannels(GetImages(sample, FALSE))
             voxels_in_patch == Prod(patch_size) * images_channels
             bytes_per_patch == 4 * voxels_in_patch
         IN [q |-> q, bytes |-> bytes_per_patch * q.max_length]

\* ---------------------------------------------------------------- __init__
\* The values a caller may pass as samples_per_volume: an int, a list or a
\* tuple of ints (both are Sequences; only the list has copy()), or a value
\* that is neither an int nor a Sequence (None, a float).
Lists(maxlen) == UNION {[1..n -> 0..MaxQuota] : n \in 0..maxlen}

SamplesArgs ==
    {[kind |-> "int", int |-> k, seq |-> <<>>] : k \in 0..MaxQuota}
    \cup {[kind |-> k, int |-> 0, seq |-> s]
            : k \in {"list", "tuple"}, s \in Lists(NumSubjects + 1)}
    \cup {[kind |-> "other", int |-> 0, seq |-> <<>>]}

Datasets == {[j \in 1..n |-> j - 1] : n \in 1..NumSubjects}

\* The object before __init__ has run.
Blank ==
    [ds |-> <<>>, max_length |-> 0, shuffle_subjects |-> FALSE,
     shuffle_patches |-> FALSE, spv |-> <<>>, it |-> NoIterable, pl |-> <<>>,
     nsp |-> 0, csv |-> <<>>, idx |-> None, cur |-> None, err |-> "",
     ret |-> <<>>, epoch |-> 0, drawn |-> <<>>, fetched |-> <<>>,
     appended |-> <<>>, log |-> <<>>]

\* Faulty variant of Validate: the length of the sequence is not checked.
ValidateNoLength(q, arg) ==
    LET a == [q EXCEPT !.spv = IF arg.kind = "int"
                                  THEN [j \in 1..num_subjects(q) |-> arg.int]
                                  ELSE arg.seq]
    IN IF arg.kind \notin {"int", "list", "tuple"} THEN Raise(a, "TypeError")
       ELSE a

\* Lines 144-157: the attributes are stored, an int is broadcast, and the two
\* checks raise.
Validate(q, arg) ==
    LET a == [q EXCEPT !.spv = IF arg.kind = "int"
                                  THEN [j \in 1..num_subjects(q) |-> arg.int]
                                  ELSE arg.seq]
    IN IF arg.kind \notin {"int", "list", "tuple"} THEN Raise(a, "TypeError")
       ELSE IF Len(a.spv) # num_subjects(a) THEN Raise(a, "ValueError")
       ELSE a

\* Lines 169-175; tuple.copy does not exist.
InitCounters(q, is_list) ==
    IF ~is_list THEN Raise(q, "AttributeError")
    ELSE [q EXCEPT !.csv = q.spv, !.idx = -1, !.cur = None,
                   !.epoch = 1, !.drawn = [j \in 1..num_subjects(q) |-> 0]]

\* Queue.__init__
QueueInit(ds, ml, arg, ss, sp, sb) ==
    LET v == Validate([Blank EXCEPT !.ds = ds, !.max_length = ml,
                                    !.shuffle_subjects = ss,
                                    !.shuffle_patches = sp], arg)
    IN IF v.err # "" THEN {v}
       ELSE { IF b.err # "" THEN b
              ELSE InitCounters(b, arg.kind # "tuple" \/ (sb /\ ss))
              : b \in (IF sb THEN InitializeSubjectsIterable(v) ELSE {v}) }

\* The quota the caller gave each subject of the dataset.
QuotaOf(ds, arg) ==
    IF arg.kind = "int" THEN [j \in 1..Len(ds) |-> arg.int]
    ELSE IF arg.kind \in {"list", "tuple"} /\ Len(arg.seq) = Len(ds) THEN arg.seq
    ELSE <<>>

\* ----------------------------------------------------------------- actions
Init ==
    /\ ctor = "none"
    /\ subjects_dataset = Blank.ds
    /\ max_length = Blank.max_length
    /\ shuffle_subjects = Blank.shuffle_subjects
    /\ shuffle_patches = Blank.shuffle_patches
    /\ samples_per_volume = Blank.spv
    /\ subjects_iterable = Blank.it
    /\ patches_list = Blank.pl
    /\ num_sampled_patches = Blank.nsp
    /\ counter_samples_per_volume = Blank.csv
    /\ idx_subject = Blank.idx
    /\ curr_subject = Blank.cur
    /\ start_background = FALSE
    /\ samples_arg = [kind |-> "other", int |-> 0, seq |-> <<>>]
    /\ quota = <<>>
    /\ error = ""
    /\ sample_patch = Blank.ret
    /\ epoch = Blank.epoch
    /\ drawn = Blank.drawn
    /\ fetched = Blank.fetched
    /\ appended = Blank.appended
    /\ log = Blank.log
    /\ memory = NoMemory

\* queue = Queue(subjects_dataset, max_length, samples_per_volume, sampler, ...)
Construct ==
    /\ ctor = "none"
    /\ \E ds \in Datasets, ml \in 1..MaxLength, arg \in SamplesArgs,
          ss \in BOOLEAN, sp \in BOOLEAN, sb \in BOOLEAN :
          \E q \in QueueInit(ds, ml, arg, ss, sp, sb) :
             /\ Store(q)
             /\ ctor' = (IF q.err = "" THEN "ok" ELSE q.err)
             /\ start_background' = sb
             /\ samples_arg' = arg
             /\ quota' = QuotaOf(ds, arg)
             /\ memory' = NoMemory

\* queue[i]
Pop ==
    /\ ctor = "ok"
    /\ num_sampled_patches < MaxPops
    /\ \E q \in GetItem(Self) : Store(q)
    /\ memory' = NoMemory
    /\ UNCHANGED <<ctor, start_background, samples_arg, quota>>

Next == Construct \/ Pop

Spec == Init /\ [][Next]_vars

\* The subjects a caller passes to get_max_memory (None: the default) and the
\* patch sizes of the sampler it reads.
SampleSubjects == {None, 1}
PatchSizes == {<<1, 1, 1>>, <<2, 1, 3>>}

\* queue.get_max_memory(subject), asked for before the first pops.
GetMaxMemory ==
    /\ ctor = "ok"
    /\ num_sampled_patches <= MaxQueried
    /\ \E subject \in SampleSubjects, patch_size \in PatchSizes :
          LET r == MaxMemory(Self, subject, patch_size)
          IN /\ Store(r.q)
             /\ memory' = [called |-> r.q.err = "", subject |-> subject,
                           patch_size |-> patch_size, bytes |-> r.bytes]
    /\ UNCHANGED <<ctor, start_background, samples_arg, quota>>

NextMemory == Construct \/ Pop \/ GetMaxMemory

\* The queue with a caller that also asks for the memory estimate.
SpecMemory == Init /\ [][NextMemory]_vars

\* queue.subjects_dataset = smaller_dataset: the caller replaces the public
\* attribute by a dataset holding fewer subjects.  num_subjects follows at
\* once; an iterable built earlier keeps the subjects it was built from.
SetSubjectsDataset ==
    /\ ctor = "ok"
    /\ \E m \in 0..(Len(subjects_dataset) - 1) :
          subjects_dataset' = SubSeq(subjects_dataset, 1, m)
    /\ UNCHANGED <<ctor, max_length, shuffle_subjects, shuffle_patches,
                   samples_per_volume, subjects_iterable, patches_list,
                   num_sampled_patches, counter_samples_per_volume, idx_subject,
                   curr_subject, start_background, samples_arg, quota, error,
                   sample_patch, epoch, drawn, fetched, appended, log, memory>>

NextMutable == Construct \/ Pop \/ SetSubjectsDataset

\* The queue with a caller that may also shrink the dataset between calls.
SpecMutable == Init /\ [][NextMutable]_vars

\* ------------------------------------------------------------ observations
Constructed == ctor = "ok"

\* Events of the last call with the given name.
Events(name) == {k \in 1..Len(log) : log[k].ev = name}

\* The last call was a __getitem__ that returned a patch, after running _fill.
FillReturned == Constructed /\ error = "" /\ Events("filled") # {}

EpochExhausted == Constructed /\ Sum(counter_samples_per_volume) = 0

\* ------------------------------------------------------------------ claims

\* C1: when an epoch is exhausted, the number of patches drawn in it from each
\* subject of the source equals the quota the caller supplied for that
\* subject, in the first epoch and in every later one, also with
\* shuffle_subjects=True.
C1_QuotaPerSubject == EpochExhausted => drawn = quota

\* C2: at every reachable state each entry of the remaining-quota vector is
\* between 0 and the entry of the queue's current samples_per_volume at the
\* same index, for every combination of shuffle_subjects and start_background.
C2_CounterWithinQuota ==
    Constructed =>
        /\ Len(counter_samples_per_volume) = Len(samples_per_volume)
        /\ \A i \in 1..Len(counter_samples_per_volume) :
              /\ 0 <= counter_samples_per_volume[i]
              /\ counter_samples_per_volume[i] <= samples_per_volume[i]

\* C3: the buffer never holds more than max_length patches, neither when
\* _fill returns nor in any state between pops, also when a subject's quota
\* exceeds the remaining headroom.
C3_BufferBounded ==
    Constructed =>
        /\ Len(patches_list) <= max_length
        /\ \A k \in Events("filled") : log[k].n <= max_length

\* C3 witness: a fill stopped at capacity in the middle of a subject, whose
\* quota exceeded the headroom, and one patch has been popped since.
C3_Witness ==
    /\ FillReturned
    /\ \E k \in Events("filled") : log[k].n = max_length
    /\ At(counter_samples_per_volume, idx_subject) > 0
    /\ Len(patches_list) = max_length - 1

\* ---- C4
IterationsPerEpoch == Sum(samples_per_volume)

\* The call was the first __getitem__ after a whole number (>= 1) of epochs.
FirstPopOfLaterEpoch ==
    /\ Constructed /\ error = "" /\ IterationsPerEpoch > 0
    /\ num_sampled_patches > 1
    /\ (num_sampled_patches - 1) % IterationsPerEpoch = 0

\* C4: after exactly k * iterations_per_epoch pops (k >= 1) the buffer is
\* empty and every remaining quota is 0; the pop after that resets the epoch
\* inside _fill (feeder built, then counter = copy of samples_per_volume,
\* cursor = -1, cached subject = None); epochs start at no other pop.
C4_EpochBoundary ==
    (Constructed /\ IterationsPerEpoch > 0) =>
        /\ (num_sampled_patches > 0 /\ num_sampled_patches % IterationsPerEpoch = 0)
              => /\ patches_list = <<>>
                 /\ \A i \in 1..Len(counter_samples_per_volume) :
                       counter_samples_per_volume[i] = 0
        /\ FirstPopOfLaterEpoch
              => \E k \in Events("reset") :
                    /\ k > 2 /\ log[1].ev = "fill" /\ log[k - 1].ev = "build"
                    /\ log[k].csv = log[k].spv
                    /\ log[k].idx = -1
                    /\ log[k].cur = None
        /\ epoch = IF num_sampled_patches = 0 THEN 1
                   ELSE 1 + ((num_sampled_patches - 1) \div IterationsPerEpoch)
        /\ Events("reset") # {} => FirstPopOfLaterEpoch

\* C4 witness: the first pop of the third epoch, in an epoch that takes
\* several fills.
C4_Witness ==
    /\ FirstPopOfLaterEpoch
    /\ epoch = 3
    /\ max_length < IterationsPerEpoch
    /\ Events("reset") # {}

\* ---- C5
\* C5 as claimed: with max_length >= 2 * iterations_per_epoch a fill leaves
\* more than iterations_per_epoch patches in the buffer.  (What a fill leaves
\* is fixed by the configuration when max_length >= iterations_per_epoch, so
\* "can leave" and "leaves" are the same statement here.)
C5_FillSpansEpochs ==
    (FillReturned /\ max_length >= 2 * IterationsPerEpoch)
        => \E k \in Events("filled") : log[k].n > IterationsPerEpoch

\* C5 amended: a fill never serves more than one epoch: it leaves at most
\* iterations_per_epoch patches, also when max_length >= 2 *
\* iterations_per_epoch, and the first pop of every epoch runs a fill.
C5_FillWithinEpoch ==
    Constructed =>
        /\ \A k \in Events("filled") : log[k].n <= IterationsPerEpoch
        /\ FirstPopOfLaterEpoch => Events("filled") # {}

\* C5 witness: max_length spans two epochs and the second epoch's first pop
\* had to fill again.
C5_Witness ==
    /\ FirstPopOfLaterEpoch
    /\ max_length >= 2 * IterationsPerEpoch
    /\ \E k \in Events("filled") : log[k].n = IterationsPerEpoch

\* ---- C6
RECURSIVE EpochOrder(_, _)
\* All patches of subject s, then of s + 1, ...: quotas[j] patches of subject j - 1.
EpochOrder(quotas, s) ==
    IF s >= Len(quotas) THEN <<>>
    ELSE Patches(s, quotas[s + 1]) \o EpochOrder(quotas, s + 1)

\* C6: with shuffle_patches=False each pop returns the patches of the last
\* fill in the order the fill appended them; with shuffle_subjects=False too
\* and max_length >= iterations_per_epoch that order is subject 0's quota in
\* sampler order, then subject 1's, and so on.
C6_FifoOrder ==
    (Constructed /\ ~shuffle_patches /\ error = "" /\ num_sampled_patches > 0) =>
        /\ Len(appended) > Len(patches_list)
        /\ sample_patch = appended[Len(appended) - Len(patches_list)]
        /\ (~shuffle_subjects /\ max_length >= IterationsPerEpoch)
              => appended = EpochOrder(quota, 0)

\* C6 witness: two subjects, the first with two patches, popped to the end
\* of the epoch without shuffling.
C6_Witness ==
    /\ Constructed /\ ~shuffle_patches /\ ~shuffle_subjects
    /\ quota = <<2, 1>> /\ max_length = 3
    /\ num_sampled_patches = 3
    /\ sample_patch = <<1, 0>>

\* ---- C7
\* The fill of the last call was entered in the middle of a subject.
EnteredMidSubject ==
    /\ FillReturned
    /\ log[1].ev = "fill"
    /\ log[1].cur # None
    /\ InRange(log[1].csv, log[1].idx)
    /\ At(log[1].csv, log[1].idx) > 0

FirstStep == IF log[2].ev = "warn" THEN 3 ELSE 2

Min(a, b) == IF a <= b THEN a ELSE b

NoDuplicates(list) ==
    \A a, b \in 1..Len(list) : list[a] = list[b] => a = b

\* C7: a fill entered with quota left at the cursor first draws that
\* remainder from the cached subject, with no fetch and the cursor unmoved;
\* every draw leaves the undrawn remainder in the counter at the cursor; in
\* one epoch no subject is fetched twice.
C7_ResumeCachedSubject ==
    Constructed =>
        /\ EnteredMidSubject =>
              /\ log[FirstStep].ev = "draw"
              /\ log[FirstStep].s = log[1].cur
              /\ log[FirstStep].cur = log[1].cur
              /\ log[FirstStep].idx = log[1].idx
              /\ log[FirstStep].n = Min(At(log[1].csv, log[1].idx),
                                        max_length - Len(log[1].pl))
        /\ \A k \in Events("draw") :
              /\ log[k].n <= At(log[k - 1].csv, log[k].idx)
              /\ At(log[k].csv, log[k].idx)
                    = At(log[k - 1].csv, log[k].idx) - log[k].n
        /\ NoDuplicates(fetched)

\* C7 witness: the second fill of an epoch resumed the subject the first fill
\* had left unfinished at capacity.
C7_Witness ==
    /\ EnteredMidSubject
    /\ Events("fetch") = {}
    /\ Len(fetched) = 1
    /\ drawn[curr_subject + 1] > max_length

\* ---- C8
\* C8: the cursor changes only by +1, at a fetch, or to -1, at an epoch
\* reset; every epoch reset, and the constructor, leave cursor = -1 and
\* counter = copy of samples_per_volume together.
C8_CursorMonotone ==
    Constructed =>
        /\ \A k \in 2..Len(log) :
              log[k].idx # log[k - 1].idx =>
                 \/ log[k].ev = "fetch" /\ log[k].idx = log[k - 1].idx + 1
                 \/ log[k].ev = "reset" /\ log[k].idx = -1
        /\ \A k \in Events("fetch") : log[k].idx = log[k - 1].idx + 1
        /\ \A k \in Events("reset") :
              log[k].idx = -1 /\ log[k].csv = log[k].spv
        /\ (num_sampled_patches = 0 /\ Events("fill") = {})
              => /\ idx_subject = -1
                 /\ counter_samples_per_volume = samples_per_volume
        /\ log # <<>> => idx_subject = log[Len(log)].idx
        /\ idx_subject >= -1

\* C8 witness: a fill that reset the epoch from a cursor > 0 and then moved
\* the cursor forward twice.
C8_Witness ==
    /\ FillReturned
    /\ \E k \in Events("reset") : log[k - 2].idx > 0
    /\ Cardinality(Events("fetch")) = 2
    /\ idx_subject = 1

\* ---- C10
\* C10: a quota that is neither an int nor a sequence fails with TypeError, a
\* sequence of the wrong length with ValueError, in both cases before the
\* feeder or any of the buffer state is built; an int is broadcast to one
\* quota per subject.
C10_QuotaValidation ==
    /\ ctor = "TypeError" <=> (ctor # "none" /\ samples_arg.kind = "other")
    /\ ctor = "ValueError" <=>
          /\ ctor # "none"
          /\ samples_arg.kind \in {"list", "tuple"}
          /\ Len(samples_arg.seq) # Len(subjects_dataset)
    /\ ctor \in {"TypeError", "ValueError"} =>
          /\ subjects_iterable = NoIterable
          /\ Events("build") = {}
          /\ patches_list = <<>> /\ counter_samples_per_volume = <<>>
          /\ epoch = 0
    /\ (Constructed /\ samples_arg.kind = "int") =>
          samples_per_volume = [j \in 1..Len(subjects_dataset) |-> samples_arg.int]

\* C10 witness: a list one longer than the dataset, with an eager feeder
\* requested, was rejected.
C10_Witness ==
    /\ ctor = "ValueError"
    /\ start_background
    /\ samples_arg.kind = "list"
    /\ Len(samples_arg.seq) = Len(subjects_dataset) + 1

\* ---- C9
\* The eos event at k is the first StopIteration of a fetch (not the retry's).
FirstEos(k) == log[k].ev = "eos" /\ ~(k > 2 /\ log[k - 1].ev = "build" /\ log[k - 2].ev = "eos")

\* C9: after the first StopIteration of a fetch the feeder is built once and
\* next() is called once more; either that yields the subject, or its
\* StopIteration ends the call with StopIteration, with the cursor, the
\* cached subject, the counter and the buffer as they were before the fetch.
\* (A feeder that cannot be rebuilt ends the call with that error instead.)
C9_RetryOnce ==
    Constructed =>
        \A k \in Events("eos") :
           IF FirstEos(k)
             THEN \/ k = Len(log) /\ error \notin {"", "StopIteration"}
                  \/ /\ Len(log) >= k + 2
                     /\ log[k + 1].ev = "build"
                     /\ log[k + 2].ev \in {"fetch", "eos"}
             ELSE /\ k = Len(log)
                  /\ error = "StopIteration"
                  /\ idx_subject = log[k - 3].idx
                  /\ curr_subject = log[k - 3].cur
                  /\ counter_samples_per_volume = log[k - 3].csv
                  /\ patches_list = log[k - 3].pl

\* C9 witness: the retry signalled end-of-sequence too and the call ended
\* with StopIteration while quota remained.
C9_Witness ==
    /\ Constructed
    /\ error = "StopIteration"
    /\ \E k \in Events("eos") : ~FirstEos(k)
    /\ Sum(counter_samples_per_volume) > 0

\* The retry succeeded: the same call went on to draw from the subject.
C9_RetrySucceeded ==
    /\ Constructed /\ error = ""
    /\ \E k \in Events("eos") : log[k + 1].ev = "build" /\ log[k + 2].ev = "fetch"

\* ---- C11
\* What a _fill leaves behind: buffer, counter, cursor, cached subject, and
\* the exception it ended with, if any.
Outcome(r) == [pl |-> r.pl, csv |-> r.csv, idx |-> r.idx, cur |-> r.cur, err |-> r.err]

\* C11: for every max_length >= 1 and all non-negative quotas the
\* divisibility check is non-fatal: a _fill on the empty buffer never ends
\* with the check's own exception and ends in the same buffer, counter and
\* cursor state as the same _fill without the check.
C11_CheckNonFatal ==
    (Constructed /\ patches_list = <<>>) =>
        /\ \A r \in Fill(Self) : r.err # "ZeroDivisionError"
        /\ {Outcome(r) : r \in Fill(Self)}
              = {Outcome(r) : r \in FillBody(FillEntry(Self))}

\* ---- C12
Occurrences(list, v) == Cardinality({j \in 1..Len(list) : list[j] = v})

SameQuotas(a, b) ==
    /\ Len(a) = Len(b)
    /\ \A j \in 1..Len(a) : Occurrences(a, a[j]) = Occurrences(b, a[j])

\* C12: iterations_per_epoch has the value it had at construction in every
\* state: a feeder construction rearranges samples_per_volume but keeps its
\* entries, its sum and its length (the subject count), and the patches drawn
\* in an epoch plus the quota still to draw always add up to it, so a whole
\* epoch appends exactly iterations_per_epoch patches.
C12_EpochLengthFixed ==
    Constructed =>
        /\ IterationsPerEpoch = Sum(quota)
        /\ Len(samples_per_volume) = Len(subjects_dataset)
        /\ SameQuotas(samples_per_volume, quota)
        /\ \A k \in 1..Len(log) : Sum(log[k].spv) = Sum(quota)
        /\ Sum(drawn) + Sum(counter_samples_per_volume) = IterationsPerEpoch
        /\ EpochExhausted => Sum(drawn) = IterationsPerEpoch

\* C12 witness: unequal quotas, rearranged by a feeder construction, at the
\* end of the second epoch.
C12_Witness ==
    /\ EpochExhausted
    /\ shuffle_subjects
    /\ epoch = 2
    /\ samples_per_volume # quota
    /\ Sum(drawn) = Sum(quota)
    /\ Sum(quota) > 0

\* ---- C13
\* No call has been made since the constructor returned.
JustConstructed == Constructed /\ num_sampled_patches = 0 /\ Events("fill") = {}

\* The build at k is the one of the first epoch of a queue constructed with
\* start_background=False: it serves the first fetch of that epoch.
LazyBuild(k) ==
    /\ ~start_background
    /\ epoch = 1
    /\ k < Len(log)
    /\ log[k + 1].ev = "fetch"
    /\ log[k + 1].idx = 0

\* The build at k is the one of an epoch reset.
ResetBuild(k) == k < Len(log) /\ log[k + 1].ev = "reset"

\* C13: the feeder is built once per epoch.  The constructor builds it when
\* start_background=True and leaves it unbuilt otherwise; in a pop every build
\* is the one before the first fetch of the first epoch of a lazily started
\* queue, or the one of an epoch reset, and every reset has its build; no
\* call builds twice; samples_per_volume is rearranged only by a build, and
\* not at all with shuffle_subjects=False.
C13_FeederOncePerEpoch ==
    Constructed =>
        /\ JustConstructed =>
              /\ Events("build") # {} <=> start_background
              /\ subjects_iterable.is_none <=> ~start_background
        /\ subjects_iterable.is_none =>
              ~start_background /\ epoch = 1 /\ fetched = <<>>
        /\ Events("fill") # {} =>
              /\ \A k \in Events("build") : LazyBuild(k) \/ ResetBuild(k)
              /\ \A k \in Events("reset") : k > 1 /\ log[k - 1].ev = "build"
              /\ \A k \in Events("fetch") :
                    log[k - 1].ev = "build" => log[k].idx = 0
        /\ Cardinality(Events("build")) <= 1
        /\ Cardinality(Events("reset")) <= 1
        /\ \A k \in 2..Len(log) :
              log[k].spv # log[k - 1].spv => log[k].ev = "build"
        /\ ~shuffle_subjects => samples_per_volume = quota

\* C13 witness: a lazily started, subject-shuffling queue whose second epoch
\* began with a reset that rearranged the quotas, followed by two fetches.
C13_Witness ==
    /\ Constructed /\ error = ""
    /\ ~start_background /\ shuffle_subjects
    /\ epoch = 2
    /\ \E k \in Events("build") : ResetBuild(k) /\ log[k].spv # log[k - 1].spv
    /\ Cardinality(Events("fetch")) = 2

\* C13 witness of the lazy build: the first pop of a lazily started queue.
C13_LazyWitness ==
    /\ Constructed /\ error = ""
    /\ \E k \in Events("build") : LazyBuild(k)
    /\ num_sampled_patches = 1

\* ---- C14
\* The fields of the object that get_max_memory must leave alone.
QueueState ==
    <<subjects_dataset, max_length, shuffle_subjects, shuffle_patches,
      samples_per_volume, subjects_iterable, patches_list, num_sampled_patches,
      counter_samples_per_volume, idx_subject, curr_subject>>

\* The channels of all images of a subject, label maps included.
AllChannels(subject) ==
    Sum([j \in 1..Len(Images(subject)) |-> Images(subject)[j].channels])

\* The estimate asked for by the last call.
ExpectedMemory ==
    LET sample == IF memory.subject = None THEN subjects_dataset[1]
                  ELSE memory.subject
    IN 4 * (memory.patch_size[1] * memory.patch_size[2] * memory.patch_size[3])
         * AllChannels(sample) * max_length

\* C14: get_max_memory returns 4 * product of the patch size * channels of
\* all images of the subject (label maps included) * max_length, for the
\* first subject of the dataset when none is given, it never fails on a
\* constructed queue, and it changes no field of the queue: buffer, counter,
\* cursor, cached subject, sampled count and feeder stay as they were.
C14_MaxMemory ==
    /\ [](memory.called => memory.bytes = ExpectedMemory)
    /\ [](Constructed /\ memory.patch_size # <<>> => memory.called)
    /\ [][memory'.patch_size # <<>> => UNCHANGED QueueState]_vars

\* C14 witness: the estimate for the default subject and for a given one
\* differ, on a queue that is in the middle of an epoch.
C14_Witness ==
    /\ memory.called
    /\ memory.subject = None
    /\ memory.patch_size = <<2, 1, 3>>
    /\ memory.bytes = 4 * 6 * 2 * max_length
    /\ patches_list # <<>>
    /\ num_sampled_patches > 0
    /\ ~subjects_iterable.is_none

\* C14 witness of a given subject: three channels instead of the default two.
C14_GivenWitness ==
    /\ memory.called
    /\ memory.subject = 1
    /\ memory.bytes = 4 * 6 * 3 * max_length

\* ---- C15
\* The last event before the fill loop of the last call: the epoch reset if
\* there was one, the entry of _fill (or its warning) otherwise.
LoopStart ==
    IF Events("reset") # {} THEN CHOOSE k \in Events("reset") : TRUE
    ELSE FirstStep - 1

\* C15: a fill run by a pop on an empty buffer returns with
\* min(max_length, sum of the remaining quotas at the start of its loop)
\* patches in the buffer, so at capacity or with the epoch exhausted, and
\* every iteration draws min(remaining quota of the current subject,
\* max_length - len(patches_list)) patches.
C15_FillToCapacity ==
    Constructed =>
        /\ \A k \in Events("filled") :
              /\ log[1].ev = "fill" /\ log[1].pl = <<>>
              /\ log[LoopStart].pl = <<>>
              /\ log[k].n = Min(max_length, Sum(log[LoopStart].csv))
              /\ Len(log[k].pl) = log[k].n
              /\ log[k].n = max_length \/ Sum(log[k].csv) = 0
              /\ log[k].n = Sum([j \in 1..Len(log) |->
                                   IF log[j].ev = "draw" THEN log[j].n ELSE 0])
        /\ \A k \in Events("draw") :
              /\ log[k].idx = log[k - 1].idx /\ log[k].s = log[k - 1].cur
              /\ log[k].n = Min(At(log[k - 1].csv, log[k].idx),
                                max_length - Len(log[k - 1].pl))
              /\ Len(log[k].pl) = Len(log[k - 1].pl) + log[k].n

\* C15 witness: a fill that began with an epoch reset and stopped at
\* capacity with quota left, after two draws.
C15_Witness ==
    /\ FillReturned
    /\ Events("reset") # {}
    /\ \E k \in Events("filled") :
          log[k].n = max_length /\ max_length < Sum(log[LoopStart].csv)
    /\ Cardinality(Events("draw")) = 2

\* C15 witness of the other stop: the epoch was exhausted below capacity.
C15_ExhaustedWitness ==
    /\ FillReturned
    /\ \E k \in Events("filled") : log[k].n < max_length /\ Sum(log[k].csv) = 0
    /\ Cardinality(Events("draw")) = 2

\* ---- C16
\* The buffer the pop of this step takes its patch from: the buffer as it
\* was, or as the fill of the step left it.
PoppedFrom ==
    IF patches_list # <<>> THEN patches_list ELSE log'[Len(log')].pl

\* C16: with max_length >= 1 and a positive quota every pop returns a patch:
\* no call ends with an exception, every fill leaves at least one patch, and
\* each pop takes exactly the last patch off the buffer, returns it and adds
\* 1 to num_sampled_patches.
C16_PopReturnsPatch ==
    /\ []((Constructed /\ IterationsPerEpoch > 0) =>
             /\ error = ""
             /\ max_length >= 1
             /\ \A k \in Events("filled") : log[k].n >= 1)
    /\ [][(Constructed /\ IterationsPerEpoch > 0) =>
             /\ error' = ""
             /\ num_sampled_patches' = num_sampled_patches + 1
             /\ (patches_list = <<>>) = (Events("filled")' # {})
             /\ PoppedFrom # <<>>
             /\ Len(patches_list') = Len(PoppedFrom) - 1
             /\ patches_list' = SubSeq(PoppedFrom, 1, Len(PoppedFrom) - 1)
             /\ sample_patch' = PoppedFrom[Len(PoppedFrom)]]_vars

\* C16 witness: a pop on an empty buffer whose fill left a single patch,
\* after earlier pops had emptied the buffer.
C16_Witness ==
    /\ FillReturned
    /\ \E k \in Events("filled") : log[k].n = 1
    /\ patches_list = <<>>
    /\ num_sampled_patches >= 2
    /\ IterationsPerEpoch > 1

\* ---- C17
\* C17: every fill terminates, subjects of quota 0 included: it runs at most
\* subject count + 1 loop iterations, each iteration fetches a subject (the
\* cursor moves by one) or draws at least one patch, and a draw of n patches
\* takes the first n patches of the subject's sequence and nothing more.
C17_FillTerminates ==
    Constructed =>
        /\ Cardinality(Events("draw")) <= Len(subjects_dataset) + 1
        /\ \A k \in Events("draw") :
              /\ \/ log[k - 1].ev = "fetch" /\ log[k].idx = log[k - 2].idx + 1
                 \/ log[k].n >= 1
              /\ log[k].pl = log[k - 1].pl
                               \o [j \in 1..log[k].n |-> <<log[k].s, j - 1>>]
        /\ (Events("fill") # {} /\ IterationsPerEpoch > 0) =>
              /\ Events("filled") = {Len(log)}
              /\ \A k \in 1..(Len(log) - 1) :
                    log[k].ev = "fetch" => log[k + 1].ev = "draw"

\* C17 witness: a fill that fetched a subject of quota 0, drew nothing from
\* it and went on to the next subject.
C17_Witness ==
    /\ FillReturned
    /\ \E k \in Events("draw") : log[k].n = 0 /\ k + 1 \in Events("fetch")
    /\ Cardinality(Events("draw")) = Len(subjects_dataset)

\* ---- C18
\* C18: while the dataset is the one the queue was constructed with, no
\* feeder is asked for more subjects than the dataset holds: every position
\* before the cursor has remaining quota 0, the cursor stays below the
\* subject count, the feeder holds exactly the subjects not yet fetched in
\* the epoch, no fetch meets end-of-sequence, and every fill ends at capacity
\* or with the epoch exhausted, never on the cursor.
C18_CursorBelowCount ==
    Constructed =>
        /\ \A j \in 1..Len(counter_samples_per_volume) :
              j - 1 < idx_subject => counter_samples_per_volume[j] = 0
        /\ idx_subject < Len(subjects_dataset)
        /\ \A k \in 1..Len(log) : log[k].idx < Len(subjects_dataset)
        /\ Len(fetched) = idx_subject + 1
        /\ ~subjects_iterable.is_none =>
              Len(subjects_iterable.items) + Len(fetched) = Len(subjects_dataset)
        /\ Events("eos") = {}
        /\ error # "StopIteration"
        /\ \A k \in Events("filled") :
              Len(log[k].pl) >= max_length \/ Sum(log[k].csv) = 0

\* C18 witness: in the second epoch the feeder has given its last subject,
\* the cursor is on it and quota is left to draw.
C18_Witness ==
    /\ FillReturned
    /\ epoch = 2
    /\ Len(subjects_dataset) = 2
    /\ idx_subject = 1
    /\ subjects_iterable.items = <<>>
    /\ Sum(counter_samples_per_volume) > 0

\* ---- C19
\* The two lists hold the same patches, each as often.
SamePatches(a, b) ==
    /\ Len(a) = Len(b)
    /\ \A j \in 1..Len(a) : Occurrences(a, a[j]) = Occurrences(b, a[j])

\* C19: patch conservation.  In every state num_sampled_patches +
\* len(patches_list) + sum(counter_samples_per_volume) = epochs started *
\* iterations_per_epoch, with and without patch shuffling, and the buffer a
\* fill returns holds exactly the patches the fill appended.
C19_PatchConservation ==
    Constructed =>
        /\ num_sampled_patches + Len(patches_list)
              + Sum(counter_samples_per_volume) = epoch * IterationsPerEpoch
        /\ \A k \in Events("filled") : SamePatches(log[k].pl, appended)
        /\ \A k \in Events("draw") :
              Len(log[k].pl) + Sum(log[k].csv)
                 = Len(log[k - 1].pl) + Sum(log[k - 1].csv)

\* C19 witness: a patch-shuffling queue in the middle of its second epoch,
\* with patches in the buffer and quota still to draw.
C19_Witness ==
    /\ Constructed /\ error = ""
    /\ shuffle_patches
    /\ epoch = 2
    /\ patches_list # <<>>
    /\ Sum(counter_samples_per_volume) > 0
    /\ num_sampled_patches > IterationsPerEpoch

====
